---------------------------- MODULE Spec2Model ----------------------------
(***************************************************************************)
(* Model of src/evaluation90.py: a Streamlit script that keeps two bidder  *)
(* tables in the session state, recomputes the price score and the total   *)
(* of every row on each script run (tab 1: linear deduction, tab 2:        *)
(* minimum ratio), stores the recomputed table, asks for a rerun when it   *)
(* changed, and reports the top-scoring bidder of each tab.                *)
(*                                                                         *)
(* Numbers.  The script computes with floats.  A number is modelled as an  *)
(* exact fraction <<n, d>> in lowest terms with d > 0, and the float NaN   *)
(* (an empty cell of the editor) as <<0, 0>>.                              *)
(***************************************************************************)
EXTENDS Integers, Sequences, FiniteSets, TLC

VARIABLES
    sidebar,      \* the sidebar widgets: max_s1..max_s5, target_price
    df_tab1_v3,   \* st.session_state.df_tab1_v3
    df_tab2_v3,   \* st.session_state.df_tab2_v3
    editor_tab1,  \* widget state of st.data_editor(key="editor_tab1")
    editor_tab2,  \* widget state of st.data_editor(key="editor_tab2")
    rerunApi,     \* which rerun function the installed streamlit has
    pending,      \* a script run has been requested and not yet made
    reruns,       \* reruns requested since the last user input
    inputs,       \* user inputs so far
    shown         \* what the last script run computed and displayed

vars == <<sidebar, df_tab1_v3, df_tab2_v3, editor_tab1, editor_tab2,
          rerunApi, pending, reruns, inputs, shown>>

-----------------------------------------------------------------------------
(* Float arithmetic *)

NaN == <<0, 0>>

RECURSIVE Gcd(_, _)
Gcd(a, b) == IF b = 0 THEN a ELSE Gcd(b, a % b)

Abs(n) == IF n < 0 THEN -n ELSE n

\* The fraction n/d (d # 0) in lowest terms with a positive denominator.
Frac(n, d) ==
    LET g == Gcd(Abs(n), Abs(d))
        s == IF d < 0 THEN -1 ELSE 1
    IN  <<(s * n) \div g, (s * d) \div g>>

Num(k) == <<k, 1>>

IsNaN(x) == x[2] = 0

FAdd(x, y) ==
    IF IsNaN(x) \/ IsNaN(y) THEN NaN
    ELSE Frac(x[1] * y[2] + y[1] * x[2], x[2] * y[2])

FSub(x, y) ==
    IF IsNaN(x) \/ IsNaN(y) THEN NaN
    ELSE Frac(x[1] * y[2] - y[1] * x[2], x[2] * y[2])

FMul(x, y) ==
    IF IsNaN(x) \/ IsNaN(y) THEN NaN
    ELSE Frac(x[1] * y[1], x[2] * y[2])

\* x / y.  With NaN on either side the result is NaN.  A zero divisor under
\* a number makes numpy return inf or nan with a warning, not an exception;
\* it is modelled as NaN.
FDiv(x, y) ==
    IF IsNaN(x) \/ IsNaN(y) \/ y[1] = 0 THEN NaN
    ELSE Frac(x[1] * y[2], x[2] * y[1])

\* Comparisons are False as soon as one side is NaN.
FLe(x, y) == ~IsNaN(x) /\ ~IsNaN(y) /\ x[1] * y[2] <= y[1] * x[2]

FLt(x, y) == ~IsNaN(x) /\ ~IsNaN(y) /\ x[1] * y[2] < y[1] * x[2]

FGe(x, y) == FLe(y, x)

FGt(x, y) == FLt(y, x)

-----------------------------------------------------------------------------
(* Sidebar and initial data *)

\* Rows are records.  The columns of the data frame, in the order of
\* get_initial_data: name (company name), s1 (track record), s2 (technical
\* proposal), s3 (regional contribution), price (bid price), s4 (price
\* score, computed), s5 (reduction proposal), total (computed).  The company
\* names of the initial data are written "A", "B", "C".
Row(name, s1, s2, s3, price, s4, s5, total) ==
    [name |-> name, s1 |-> s1, s2 |-> s2, s3 |-> s3, price |-> price,
     s4 |-> s4, s5 |-> s5, total |-> total]

DefaultSidebar ==
    [max_s1 |-> 10, max_s2 |-> 90, max_s3 |-> 10, max_s4 |-> 90,
     max_s5 |-> 25, target_price |-> Num(420)]

full_score_price(sb) == FMul(sb.target_price, Frac(8, 10))

get_initial_data(sb) ==
    LET m1 == Num(sb.max_s1)
        m2 == Num(sb.max_s2)
        m3 == Num(sb.max_s3)
        m5 == Num(sb.max_s5)
    IN  << Row("A", m1, FMul(m2, Frac(94, 100)), m3,
               Num(420), Num(0), m5, Num(0)),
           Row("B", FMul(m1, Frac(8, 10)), FMul(m2, Frac(77, 100)),
               FMul(m3, Frac(8, 10)), Num(380), Num(0), m5, Num(0)),
           Row("C", FMul(m1, Frac(6, 10)), FMul(m2, Frac(61, 100)),
               FMul(m3, Frac(6, 10)), Num(340), Num(0), m5, Num(0)) >>

-----------------------------------------------------------------------------
(* Tab 1: linear deduction *)

\* Variants of calc_standard with one slip each.
calc_standard_no_cap(row, sb) ==
    LET price == row.price
        range_width == FSub(sb.target_price, full_score_price(sb))
        price_diff == FSub(sb.target_price, price)
        s4 == IF FGe(price, sb.target_price) THEN Num(0)
              ELSE FMul(FDiv(price_diff, range_width), Num(sb.max_s4))
        total == FAdd(FAdd(FAdd(FAdd(row.s1, row.s2), row.s3), s4), row.s5)
    IN  [s4 |-> s4, total |-> total,
         divisors |-> IF FGe(price, sb.target_price) THEN {} ELSE {range_width}]

calc_standard_rising(row, sb) ==
    LET price == row.price
        branch == IF FLe(price, full_score_price(sb)) THEN "full"
                  ELSE IF FGe(price, sb.target_price) THEN "zero"
                  ELSE "between"
        range_width == FSub(sb.target_price, full_score_price(sb))
        price_diff == FSub(price, full_score_price(sb))
        s4 == CASE branch = "full" -> Num(sb.max_s4)
                [] branch = "zero" -> Num(0)
                [] OTHER -> FMul(FDiv(price_diff, range_width), Num(sb.max_s4))
        total == FAdd(FAdd(FAdd(FAdd(row.s1, row.s2), row.s3), s4), row.s5)
    IN  [s4 |-> s4, total |-> total,
         divisors |-> IF branch = "between" THEN {range_width} ELSE {}]

calc_standard_adds_stored_total(row, sb) ==
    LET price == row.price
        branch == IF FLe(price, full_score_price(sb)) THEN "full"
                  ELSE IF FGe(price, sb.target_price) THEN "zero"
                  ELSE "between"
        range_width == FSub(sb.target_price, full_score_price(sb))
        price_diff == FSub(sb.target_price, price)
        s4 == CASE branch = "full" -> Num(sb.max_s4)
                [] branch = "zero" -> Num(0)
                [] OTHER -> FMul(FDiv(price_diff, range_width), Num(sb.max_s4))
        total == FAdd(FAdd(FAdd(FAdd(FAdd(row.s1, row.s2), row.s3), s4), row.s5), row.total)
    IN  [s4 |-> s4, total |-> total,
         divisors |-> IF branch = "between" THEN {range_width} ELSE {}]

\* One call of calc_standard: the pair it returns and the divisors of the
\* divisions it evaluated.
calc_standard(row, sb) ==
    LET price == row.price
        branch == IF FLe(price, full_score_price(sb)) THEN "full"
                  ELSE IF FGe(price, sb.target_price) THEN "zero"
                  ELSE "between"
        range_width == FSub(sb.target_price, full_score_price(sb))
        price_diff == FSub(sb.target_price, price)
        s4 == CASE branch = "full" -> Num(sb.max_s4)
                [] branch = "zero" -> Num(0)
                [] OTHER -> FMul(FDiv(price_diff, range_width), Num(sb.max_s4))
        total == FAdd(FAdd(FAdd(FAdd(row.s1, row.s2), row.s3), s4), row.s5)
    IN  [s4 |-> s4, total |-> total,
         divisors |-> IF branch = "between" THEN {range_width} ELSE {}]

\* Lines 141-143: the two derived columns of every row are assigned from
\* calc_standard; an empty frame is left alone.
ApplyStandard(df, sb) ==
    [i \in 1..Len(df) |->
        [df[i] EXCEPT !.s4 = calc_standard(df[i], sb).s4,
                      !.total = calc_standard(df[i], sb).total]]

DivisorsStandard(df, sb) ==
    UNION {calc_standard(df[i], sb).divisors : i \in 1..Len(df)}

-----------------------------------------------------------------------------
(* Tab 2: minimum ratio *)

valid_prices(df) == {df[i].price : i \in {j \in 1..Len(df) : FGt(df[j].price, Num(0))}}

\* Variants of min_price and calc_min_ratio with one slip each.
min_price_of_all(df) ==
    LET prices == {df[i].price : i \in {j \in 1..Len(df) : ~IsNaN(df[j].price)}}
    IN  IF prices # {}
        THEN CHOOSE p \in prices : \A q \in prices : FLe(p, q)
        ELSE Num(0)

min_price(df) ==
    IF valid_prices(df) # {}
    THEN CHOOSE p \in valid_prices(df) : \A q \in valid_prices(df) : FLe(p, q)
    ELSE Num(0)

calc_min_ratio_stale_s4(row, mp, sb) ==
    LET price == row.price
        ratio == FGt(price, Num(0)) /\ FGt(mp, Num(0))
        s4 == IF ratio THEN FMul(FDiv(mp, price), Num(sb.max_s4)) ELSE Num(0)
        total == FAdd(FAdd(FAdd(FAdd(row.s1, row.s2), row.s3), row.s4), row.s5)
    IN  [s4 |-> s4, total |-> total,
         divisors |-> IF ratio THEN {price} ELSE {}]

calc_min_ratio_unguarded(row, mp, sb) ==
    LET price == row.price
        ratio == FGt(mp, Num(0)) /\ ~IsNaN(price)
        s4 == IF ratio THEN FMul(FDiv(mp, price), Num(sb.max_s4)) ELSE Num(0)
        total == FAdd(FAdd(FAdd(FAdd(row.s1, row.s2), row.s3), s4), row.s5)
    IN  [s4 |-> s4, total |-> total,
         divisors |-> IF ratio THEN {price} ELSE {}]

calc_min_ratio(row, mp, sb) ==
    LET price == row.price
        ratio == FGt(price, Num(0)) /\ FGt(mp, Num(0))
        s4 == IF ratio THEN FMul(FDiv(mp, price), Num(sb.max_s4)) ELSE Num(0)
        total == FAdd(FAdd(FAdd(FAdd(row.s1, row.s2), row.s3), s4), row.s5)
    IN  [s4 |-> s4, total |-> total,
         divisors |-> IF ratio THEN {price} ELSE {}]

ApplyMinRatio(df, sb) ==
    [i \in 1..Len(df) |->
        [df[i] EXCEPT !.s4 = calc_min_ratio(df[i], min_price(df), sb).s4,
                      !.total = calc_min_ratio(df[i], min_price(df), sb).total]]

DivisorsMinRatio(df, sb) ==
    UNION {calc_min_ratio(df[i], min_price(df), sb).divisors : i \in 1..Len(df)}

-----------------------------------------------------------------------------
(* The data editor *)

\* A row added in the editor: every cell is empty (None, NaN in a number
\* column).
BlankRow == Row("", NaN, NaN, NaN, NaN, NaN, NaN, NaN)

NoEdit == [op |-> "none", row |-> 0, col |-> "", val |-> NaN, name |-> ""]

CellEdit(r, c, v) == [op |-> "cell", row |-> r, col |-> c, val |-> v, name |-> ""]

NameEdit(r, n) == [op |-> "name", row |-> r, col |-> "name", val |-> NaN, name |-> n]

AddEdit == [op |-> "add", row |-> 0, col |-> "", val |-> NaN, name |-> ""]

DeleteEdit(r) == [op |-> "delete", row |-> r, col |-> "", val |-> NaN, name |-> ""]

RemoveAt(df, r) == [i \in 1..(Len(df) - 1) |-> IF i < r THEN df[i] ELSE df[i + 1]]

SetCell(row, c, v) ==
    CASE c = "s1" -> [row EXCEPT !.s1 = v]
      [] c = "s2" -> [row EXCEPT !.s2 = v]
      [] c = "s3" -> [row EXCEPT !.s3 = v]
      [] c = "s5" -> [row EXCEPT !.s5 = v]
      [] OTHER    -> [row EXCEPT !.price = v]

\* st.data_editor(df, ...): a copy of the stored frame with the widget's
\* pending edit applied.
data_editor(df, ed) ==
    CASE ed.op = "cell"   -> [df EXCEPT ![ed.row] = SetCell(df[ed.row], ed.col, ed.val)]
      [] ed.op = "name"   -> [df EXCEPT ![ed.row].name = ed.name]
      [] ed.op = "add"    -> Append(df, BlankRow)
      [] ed.op = "delete" -> RemoveAt(df, ed.row)
      [] OTHER            -> df

-----------------------------------------------------------------------------
(* Ranking *)

NoWinner == [kind |-> "none", name |-> "", score |-> NaN, idx |-> 0]

RankError == [kind |-> "error", name |-> "", score |-> NaN, idx |-> 0]

\* Series.max(): the greatest total, NaN left out.
MaxTotal(df) ==
    LET nums == {i \in 1..Len(df) : ~IsNaN(df[i].total)}
    IN  IF nums = {} THEN NaN
        ELSE df[CHOOSE i \in nums : \A j \in nums : FLe(df[j].total, df[i].total)].total

\* Series.idxmax(): the first position holding the greatest total, NaN left
\* out; 0 when every total is NaN (idxmax returns nan or raises).
IdxMax(df) ==
    LET hits == {i \in 1..Len(df) : df[i].total = MaxTotal(df) /\ ~IsNaN(df[i].total)}
    IN  IF hits = {} THEN 0 ELSE CHOOSE i \in hits : \A j \in hits : i <= j

\* Lines 151-154 (tab 1) and 222-225 (tab 2).  With every total NaN the
\* lookup .loc[idxmax, ...] raises and the script run ends there.
Rank(df) ==
    IF Len(df) = 0 THEN NoWinner
    ELSE IF IdxMax(df) = 0 THEN RankError
    ELSE [kind |-> "winner", name |-> df[IdxMax(df)].name,
          score |-> MaxTotal(df), idx |-> IdxMax(df)]

-----------------------------------------------------------------------------
(* One run of the script *)

NumTabs == 2

RerunApis == {"rerun", "experimental_rerun", "none"}

\* safe_rerun(): True when it stops the run and queues another one.
safe_rerun(api) == api \in {"rerun", "experimental_rerun"}

NotRun == [ran |-> FALSE, in |-> <<>>, out |-> <<>>, divisors |-> {}, win |-> NoWinner]

\* The tab-1 block up to the save: editor, recompute.
Tab1(sb) ==
    LET edited == data_editor(df_tab1_v3, editor_tab1)
        out == IF Len(edited) # 0 THEN ApplyStandard(edited, sb) ELSE edited
    IN  [ran |-> TRUE, in |-> edited, out |-> out,
         divisors |-> IF Len(edited) # 0 THEN DivisorsStandard(edited, sb) ELSE {},
         win |-> NoWinner]

Tab2(sb) ==
    LET edited == data_editor(df_tab2_v3, editor_tab2)
        out == IF Len(edited) # 0 THEN ApplyMinRatio(edited, sb) ELSE edited
    IN  [ran |-> TRUE, in |-> edited, out |-> out,
         divisors |-> IF Len(edited) # 0 THEN DivisorsMinRatio(edited, sb) ELSE {},
         win |-> NoWinner]

\* The script from top to bottom.  The sidebar values are read once; tab 1
\* is recomputed and, when it differs from the stored frame, stored and the
\* run stopped for a rerun; otherwise its winner is shown and tab 2 goes the
\* same way.  A stored frame that changed gives the editor a new identity,
\* which drops its pending edit.
RunUpTo(sb, t1, t2, reach2) ==
    LET changed1 == t1.out # df_tab1_v3
        stop1 == changed1 /\ safe_rerun(rerunApi)
        changed2 == reach2 /\ t2.out # df_tab2_v3
        stop2 == changed2 /\ safe_rerun(rerunApi)
        again == stop1 \/ stop2
    IN  /\ df_tab1_v3' = IF changed1 THEN t1.out ELSE df_tab1_v3
        /\ editor_tab1' = IF changed1 THEN NoEdit ELSE editor_tab1
        /\ df_tab2_v3' = IF changed2 THEN t2.out ELSE df_tab2_v3
        /\ editor_tab2' = IF changed2 THEN NoEdit ELSE editor_tab2
        /\ pending' = again
        /\ reruns' = IF again /\ reruns <= NumTabs THEN reruns + 1 ELSE reruns
        /\ shown' = [sb |-> sb, tab1 |-> t1, tab2 |-> t2,
                     stop1 |-> stop1, stop2 |-> stop2]

ScriptRun ==
    /\ pending
    /\ \E t1 \in {Tab1(sidebar)} :
          IF t1.out # df_tab1_v3 /\ safe_rerun(rerunApi)
          THEN RunUpTo(sidebar, t1, NotRun, FALSE)
          ELSE \E win1 \in {Rank(t1.out)} :
                  IF win1.kind = "error"
                  THEN RunUpTo(sidebar, [t1 EXCEPT !.win = win1], NotRun, FALSE)
                  ELSE \E t2 \in {Tab2(sidebar)} :
                          RunUpTo(sidebar, [t1 EXCEPT !.win = win1],
                                  IF t2.out # df_tab2_v3 /\ safe_rerun(rerunApi)
                                  THEN t2 ELSE [t2 EXCEPT !.win = Rank(t2.out)],
                                  TRUE)
    /\ UNCHANGED <<sidebar, rerunApi, inputs>>

-----------------------------------------------------------------------------
(* User input *)

MaxInputs == 2

MaxRows == 3

\* Values the user types, kept few.  The sidebar's weight boxes take
\* integers in 0..100, the target price any number.
MaxChoices == {0, 5}

TargetChoices == {Num(-5), Num(0), Num(10)}

ScoreChoices == {Num(0), Num(1), Num(5), NaN}

PriceChoices == {Num(0), Num(9), NaN}

NameChoices == {"A", "B"}

\* An input is made on a settled screen and asks for a script run.
UserInput ==
    /\ ~pending
    /\ inputs < MaxInputs
    /\ inputs' = inputs + 1
    /\ pending' = TRUE
    /\ reruns' = 0
    /\ UNCHANGED <<df_tab1_v3, df_tab2_v3, rerunApi, shown>>

\* Lines 24-28: one of the five weight boxes is changed.
SetMax ==
    /\ UserInput
    /\ \E v \in MaxChoices :
          \/ v # sidebar.max_s1 /\ sidebar' = [sidebar EXCEPT !.max_s1 = v]
          \/ v # sidebar.max_s2 /\ sidebar' = [sidebar EXCEPT !.max_s2 = v]
          \/ v # sidebar.max_s3 /\ sidebar' = [sidebar EXCEPT !.max_s3 = v]
          \/ v # sidebar.max_s4 /\ sidebar' = [sidebar EXCEPT !.max_s4 = v]
          \/ v # sidebar.max_s5 /\ sidebar' = [sidebar EXCEPT !.max_s5 = v]
    /\ UNCHANGED <<editor_tab1, editor_tab2>>

\* Line 38: the target price is changed; the box has no minimum.
SetTarget ==
    /\ UserInput
    /\ \E v \in TargetChoices :
          v # sidebar.target_price /\ sidebar' = [sidebar EXCEPT !.target_price = v]
    /\ UNCHANGED <<editor_tab1, editor_tab2>>

\* get_column_config(): what the editor accepts in a cell.  The score
\* columns take 0..max of the sidebar values the editor was drawn with, the
\* price column anything from 0; an emptied cell is accepted in each (no
\* column is marked required).  s4 and total are disabled.
ColumnAccepts(sb, c, v) ==
    \/ IsNaN(v)
    \/ /\ FGe(v, Num(0))
       /\ CASE c = "s1" -> FLe(v, Num(sb.max_s1))
            [] c = "s2" -> FLe(v, Num(sb.max_s2))
            [] c = "s3" -> FLe(v, Num(sb.max_s3))
            [] c = "s5" -> FLe(v, Num(sb.max_s5))
            [] OTHER    -> TRUE

CellOf(row, c) ==
    CASE c = "s1" -> row.s1
      [] c = "s2" -> row.s2
      [] c = "s3" -> row.s3
      [] c = "s5" -> row.s5
      [] OTHER    -> row.price

\* The edits the user can make in an editor showing df.
EditsOf(df) ==
    {CellEdit(r, c, v) : r \in 1..Len(df), c \in {"s1", "s2", "s3", "s5"}, v \in ScoreChoices}
    \cup {CellEdit(r, "price", v) : r \in 1..Len(df), v \in PriceChoices}
    \cup {NameEdit(r, n) : r \in 1..Len(df), n \in NameChoices}
    \cup {DeleteEdit(r) : r \in 1..Len(df)}
    \cup (IF Len(df) < MaxRows THEN {AddEdit} ELSE {})

EditAllowed(df, ed) ==
    /\ ed.op = "cell" => /\ ColumnAccepts(shown.sb, ed.col, ed.val)
                         /\ CellOf(df[ed.row], ed.col) # ed.val
    /\ ed.op = "name" => df[ed.row].name # ed.name

\* Lines 108-115: an edit in the tab-1 editor.
EditTab1 ==
    /\ UserInput
    /\ editor_tab1 = NoEdit
    /\ \E ed \in EditsOf(df_tab1_v3) :
          EditAllowed(df_tab1_v3, ed) /\ editor_tab1' = ed
    /\ UNCHANGED <<sidebar, editor_tab2>>

\* Lines 186-193: an edit in the tab-2 editor.
EditTab2 ==
    /\ UserInput
    /\ editor_tab2 = NoEdit
    /\ \E ed \in EditsOf(df_tab2_v3) :
          EditAllowed(df_tab2_v3, ed) /\ editor_tab2' = ed
    /\ UNCHANGED <<sidebar, editor_tab1>>

-----------------------------------------------------------------------------
(* Specifications *)

NothingShown ==
    [sb |-> DefaultSidebar, tab1 |-> NotRun, tab2 |-> NotRun,
     stop1 |-> FALSE, stop2 |-> FALSE]

\* The session as the first run of the script finds it after lines 57-60:
\* both frames hold the initial data, the sidebar its defaults, and the run
\* is under way.
InitSession ==
    /\ sidebar = DefaultSidebar
    /\ df_tab1_v3 = get_initial_data(DefaultSidebar)
    /\ df_tab2_v3 = get_initial_data(DefaultSidebar)
    /\ editor_tab1 = NoEdit
    /\ editor_tab2 = NoEdit
    /\ rerunApi \in RerunApis
    /\ pending = TRUE
    /\ reruns = 0
    /\ inputs = 0
    /\ shown = NothingShown

\* A frame as a script run leaves it in the session state.
StoredTab1(df, sb) == IF Len(df) # 0 THEN ApplyStandard(df, sb) ELSE df

StoredTab2(df, sb) == IF Len(df) # 0 THEN ApplyMinRatio(df, sb) ELSE df

\* A session the user has worked in, at the start of a script run: the
\* frames hold rows as typed, recomputed by an earlier run under the sidebar
\* values prev, and the sidebar now shows sb.
Session(t1, t2, prev, sb, apis) ==
    /\ sidebar = sb
    /\ df_tab1_v3 = StoredTab1(t1, prev)
    /\ df_tab2_v3 = StoredTab2(t2, prev)
    /\ editor_tab1 = NoEdit
    /\ editor_tab2 = NoEdit
    /\ rerunApi \in apis
    /\ pending = TRUE
    /\ reruns = 0
    /\ inputs = 0
    /\ shown = [NothingShown EXCEPT !.sb = sb]

Typed(name, s1, s2, s3, price, s5) ==
    Row(name, s1, s2, s3, price, Num(0), s5, Num(0))

\* Two bidders with equal scores and prices, and a frame whose rows were
\* all deleted and one empty row added.
TwoBidders ==
    << Typed("A", Num(10), Num(80), Num(10), Num(400), Num(25)),
       Typed("B", Num(10), Num(80), Num(10), Num(400), Num(25)) >>

InitWorked ==
    \E t1 \in {TwoBidders, <<BlankRow>>} :
        Session(t1, TwoBidders, DefaultSidebar, DefaultSidebar, RerunApis)

Init == InitSession \/ InitWorked

Next == ScriptRun \/ SetMax \/ SetTarget \/ EditTab1 \/ EditTab2

Spec == Init /\ [][Next]_vars

-----------------------------------------------------------------------------
(* The recompute on bounded inputs *)

MaxEngineRows == 2

EngineNames == <<"A", "B", "C", "D">>

EnginePrices == {Num(0), Num(4), Num(8), Frac(19, 2), Num(10), NaN}

\* s1, s2, s3, s5 of a row: all zero, all typed, all empty.
EngineScores ==
    { <<Num(0), Num(0), Num(0), Num(0)>>,
      <<Num(1), Num(2), Num(1), Num(2)>>,
      <<NaN, NaN, NaN, NaN>> }

EngineTables ==
    UNION { [1..n -> EngineScores \X EnginePrices] : n \in 0..MaxEngineRows }

EngineTable(t) ==
    [i \in 1..Len(t) |->
        Typed(EngineNames[i], t[i][1][1], t[i][1][2], t[i][1][3], t[i][2], t[i][1][4])]

EngineSidebar(m4, t) ==
    [max_s1 |-> 2, max_s2 |-> 2, max_s3 |-> 2, max_s4 |-> m4, max_s5 |-> 2,
     target_price |-> t]

EngineSidebars ==
    {EngineSidebar(m4, t) : m4 \in {0, 3}, t \in {Num(-5), Num(0), Num(5), Num(10)}}

\* Sidebar values of an earlier run, which left the derived columns that
\* the frames hold when the run modelled here starts.
EarlierSidebar == EngineSidebar(7, Num(6))

EngineInit ==
    \E t \in EngineTables, sb \in EngineSidebars, prev \in {EarlierSidebar} \cup EngineSidebars :
        /\ prev \in {EarlierSidebar, sb}
        /\ Session(EngineTable(t), EngineTable(t), prev, sb, {"rerun"})

EngineSpec == EngineInit /\ [][ScriptRun]_vars

-----------------------------------------------------------------------------
(* Properties *)

\* The two tab blocks of the last script run that reached their recompute.
Passes == {t \in {shown.tab1, shown.tab2} : t.ran}

Ranked == {t \in {shown.tab1} : t.ran /\ ~shown.stop1}
          \cup {t \in {shown.tab2} : t.ran /\ ~shown.stop2}

PricesOk(df) == \A i \in 1..Len(df) : FGe(df[i].price, Num(0))

Between(lo, x, hi) == FLe(lo, x) /\ FLe(x, hi)

MaxS4 == Num(shown.sb.max_s4)

\* C1: after a recompute under either model, over a table whose bid prices
\* are all >= 0 and with max_s4 >= 0 and any target price, every row has
\* 0 <= price score <= max_s4 (so 0 when max_s4 = 0).
C1_PriceScoreInRange ==
    \A t \in Passes :
        (PricesOk(t.in) /\ shown.sb.max_s4 >= 0) =>
            \A i \in 1..Len(t.out) : Between(Num(0), t.out[i].s4, MaxS4)

\* Both tabs recomputed rows with a price score strictly inside the range,
\* and tab 1 also a row at full score.
C1_Witness ==
    /\ shown.tab1.ran /\ shown.tab2.ran
    /\ PricesOk(shown.tab1.in) /\ PricesOk(shown.tab2.in)
    /\ \E i \in 1..Len(shown.tab1.out) :
          FLt(Num(0), shown.tab1.out[i].s4) /\ FLt(shown.tab1.out[i].s4, MaxS4)
    /\ \E i \in 1..Len(shown.tab1.out) : shown.tab1.out[i].s4 = MaxS4
    /\ \E i \in 1..Len(shown.tab2.out) :
          FLt(Num(0), shown.tab2.out[i].s4) /\ FLt(shown.tab2.out[i].s4, MaxS4)

SumOf(row) == FAdd(FAdd(FAdd(FAdd(row.s1, row.s2), row.s3), row.s4), row.s5)

\* C2: after every recompute, in both tabs, every row's total is
\* s1 + s2 + s3 + s4 + s5 with s4 the price score the same pass gave that
\* row.  (A row with an empty cell has NaN on both sides.)
C2_TotalIsSum ==
    \A t \in Passes :
        \A i \in 1..Len(t.out) : t.out[i].total = SumOf(t.out[i])

\* Tab 2 recomputed a row whose stored price score was stale and whose new
\* price score and total are numbers, the price score above 0.
C2_Witness ==
    /\ shown.tab2.ran
    /\ \E i \in 1..Len(shown.tab2.out) :
          /\ shown.tab2.in[i].s4 # shown.tab2.out[i].s4
          /\ ~IsNaN(shown.tab2.out[i].total)
          /\ FGt(shown.tab2.out[i].s4, Num(0))

\* C3: a tab that reaches its ranking reports, for a non-empty table, a row
\* whose total is the greatest (rows whose total is NaN are not held
\* against it), that total as the score, and the earliest row having it; for
\* an empty table it reports no winner and raises no error.
C3_Ranking ==
    \A t \in Ranked :
        IF Len(t.out) = 0 THEN t.win.kind = "none"
        ELSE /\ t.win.kind = "winner"
             /\ t.win.idx \in 1..Len(t.out)
             /\ t.win.name = t.out[t.win.idx].name
             /\ t.win.score = t.out[t.win.idx].total
             /\ \A j \in 1..Len(t.out) :
                   /\ IsNaN(t.out[j].total) \/ FLe(t.out[j].total, t.win.score)
                   /\ j < t.win.idx => t.out[j].total # t.win.score

Zeroed(df) == [i \in 1..Len(df) |-> [df[i] EXCEPT !.s4 = Num(0), !.total = Num(0)]]

\* C4: recompute is idempotent in both tabs: recomputing the table a pass
\* produced, under the same sidebar values, gives that table again, and the
\* price scores and totals stored in the input do not reach the output.
C4_Idempotent ==
    /\ shown.tab1.ran =>
          /\ StoredTab1(shown.tab1.out, shown.sb) = shown.tab1.out
          /\ StoredTab1(Zeroed(shown.tab1.in), shown.sb) = shown.tab1.out
    /\ shown.tab2.ran =>
          /\ StoredTab2(shown.tab2.out, shown.sb) = shown.tab2.out
          /\ StoredTab2(Zeroed(shown.tab2.in), shown.sb) = shown.tab2.out

\* Tab 1 recomputed a table of several rows that held the price scores and
\* totals of an earlier pass, and a total changed.
C4_Witness ==
    /\ shown.tab1.ran
    /\ Len(shown.tab1.out) > 1
    /\ shown.tab1.in # Zeroed(shown.tab1.in)
    /\ \E i \in 1..Len(shown.tab1.out) :
          /\ shown.tab1.in[i].total # shown.tab1.out[i].total
          /\ ~IsNaN(shown.tab1.out[i].total)

\* The least bid price above 0 of a table, 0 when there is none.
LeastPositive(df) ==
    LET pos == {i \in 1..Len(df) : FGt(df[i].price, Num(0))}
    IN  IF pos = {} THEN Num(0)
        ELSE df[CHOOSE i \in pos : \A j \in pos : FLe(df[i].price, df[j].price)].price

\* C5: minimum-ratio model: with minPrice the least bid price > 0 of the
\* table (0 if none), every row gets (minPrice / price) * max_s4 when
\* price > 0 and minPrice > 0, else 0; a row at minPrice > 0 gets exactly
\* max_s4, and when no price is > 0 every price score is 0.
C5_MinRatio ==
    shown.tab2.ran =>
        LET df == shown.tab2.out
            mp == LeastPositive(shown.tab2.in)
        IN  \A i \in 1..Len(df) :
               /\ df[i].s4 = IF FGt(df[i].price, Num(0)) /\ FGt(mp, Num(0))
                             THEN FMul(FDiv(mp, df[i].price), MaxS4)
                             ELSE Num(0)
               /\ (df[i].price = mp /\ FGt(mp, Num(0))) => df[i].s4 = MaxS4
               /\ (\A j \in 1..Len(df) : df[j].price = Num(0)) => df[i].s4 = Num(0)

\* Tab 2 recomputed, with max_s4 > 0, a table with two different positive
\* prices: the lower row got max_s4, the higher one less.
C5_Witness ==
    /\ shown.tab2.ran
    /\ shown.sb.max_s4 > 0
    /\ Len(shown.tab2.out) > 1
    /\ \E i, j \in 1..Len(shown.tab2.out) :
          /\ FGt(shown.tab2.out[i].price, Num(0))
          /\ FGt(shown.tab2.out[j].price, shown.tab2.out[i].price)
          /\ shown.tab2.out[i].s4 = MaxS4
          /\ FLt(shown.tab2.out[j].s4, MaxS4)

\* C6: linear-deduction model with target_price > 0 and threshold
\* 0.8 * target_price: a row with price >= 0 gets max_s4 when price <=
\* threshold, 0 when price >= target_price, and otherwise
\* (target_price - price) / (target_price - threshold) * max_s4.
C6_Standard ==
    (shown.tab1.ran /\ FGt(shown.sb.target_price, Num(0))) =>
        LET df == shown.tab1.out
            target == shown.sb.target_price
            threshold == FMul(target, Frac(4, 5))
        IN  \A i \in 1..Len(df) :
               FGe(df[i].price, Num(0)) =>
                  df[i].s4 =
                     IF FLe(df[i].price, threshold) THEN MaxS4
                     ELSE IF FGe(df[i].price, target) THEN Num(0)
                     ELSE FMul(FDiv(FSub(target, df[i].price),
                                    FSub(target, threshold)), MaxS4)

\* Tab 1 recomputed, under a positive target price, a row priced exactly at
\* the threshold and a row strictly between threshold and target.
C6_Witness ==
    /\ shown.tab1.ran
    /\ FGt(shown.sb.target_price, Num(0))
    /\ shown.sb.max_s4 > 0
    /\ \E i, j \in 1..Len(shown.tab1.out) :
          /\ shown.tab1.out[i].price = FMul(shown.sb.target_price, Frac(4, 5))
          /\ shown.tab1.out[i].s4 = MaxS4
          /\ FGt(shown.tab1.out[j].price, shown.tab1.out[i].price)
          /\ FLt(shown.tab1.out[j].price, shown.sb.target_price)
          /\ FLt(Num(0), shown.tab1.out[j].s4) /\ FLt(shown.tab1.out[j].s4, MaxS4)

\* C7: under the linear-deduction model, whenever target_price <= 0 every
\* row with price >= 0 gets price score 0.
C7_DegenerateTarget ==
    (shown.tab1.ran /\ FLe(shown.sb.target_price, Num(0))) =>
        \A i \in 1..Len(shown.tab1.out) :
            FGe(shown.tab1.out[i].price, Num(0)) => shown.tab1.out[i].s4 = Num(0)

\* C8: over a table whose bid prices are all >= 0, no recompute divides by
\* zero: every divisor a pass used is > 0, tab 1 divides only by a positive
\* target_price - threshold and tab 2 only by a positive price; the pass
\* gives every row a price score that is a number, and a total that is a
\* number when the row's other scores are.
C8_NoZeroDivisor ==
    \A t \in Passes :
        PricesOk(t.in) =>
            /\ \A d \in t.divisors : FGt(d, Num(0))
            /\ \A i \in 1..Len(t.out) :
                  /\ ~IsNaN(t.out[i].s4)
                  /\ (~IsNaN(t.out[i].s1) /\ ~IsNaN(t.out[i].s2) /\ ~IsNaN(t.out[i].s3)
                        /\ ~IsNaN(t.out[i].s5)) => ~IsNaN(t.out[i].total)

\* Both tabs divided in a pass over a table that also holds a price of 0.
C8_Witness ==
    \A t \in {shown.tab1, shown.tab2} :
        /\ t.ran
        /\ PricesOk(t.in)
        /\ t.divisors # {}
        /\ \E i \in 1..Len(t.in) : t.in[i].price = Num(0)

InRange(x, max) == IsNaN(x) \/ Between(Num(0), x, Num(max))

\* C9: every row that reaches a scoring pass has s1, s2, s3, s5 within
\* [0, max] of the sidebar values of that pass and a price >= 0 (an empty
\* cell is not counted as out of range).
C9_InputsInRange ==
    \A t \in Passes :
        \A i \in 1..Len(t.in) :
            /\ InRange(t.in[i].s1, shown.sb.max_s1)
            /\ InRange(t.in[i].s2, shown.sb.max_s2)
            /\ InRange(t.in[i].s3, shown.sb.max_s3)
            /\ InRange(t.in[i].s5, shown.sb.max_s5)
            /\ IsNaN(t.in[i].price) \/ FGe(t.in[i].price, Num(0))

\* C10: after an input, at most one rerun per tab is requested, and once no
\* run is pending each stored frame is the recompute of its edited table
\* under the current sidebar values.
C10_Settled ==
    /\ reruns <= NumTabs
    /\ ~pending =>
          /\ df_tab1_v3 = StoredTab1(data_editor(df_tab1_v3, editor_tab1), sidebar)
          /\ df_tab2_v3 = StoredTab2(data_editor(df_tab2_v3, editor_tab2), sidebar)

=============================================================================
